---- MODULE Spec2Model ----
(***************************************************************************)
(* Model of the GSC ledger / wallet engine (services/gscBlockchain.ts).    *)
(*                                                                         *)
(* Strings that the code inspects character by character (names, keys,     *)
(* addresses) are sequences of one-character strings.  Amounts are         *)
(* integers counting units of 0.05 GSC, so the fixed fee 0.1 is 2 units.   *)
(* SHA-256 and AES-GCM are abstract injective constructors.                *)
(* An async method is one action per stretch of code between two awaits.   *)
(***************************************************************************)
EXTENDS Integers, Sequences, FiniteSets, TLC

----------------------------------------------------------------------------
(* Bounds of the model *)

MaxWallets == 2
MaxPending == 2
MaxAmount  == 2
MaxClock   == 0
MaxCalls   == 2

----------------------------------------------------------------------------
(* Strings *)

Rep(c, n) == [i \in 1..n |-> c]

Min(a, b) == IF a < b THEN a ELSE b
Max(a, b) == IF a > b THEN a ELSE b

\* String.prototype.startsWith
StartsWith(s, p) == Len(s) >= Len(p) /\ SubSeq(s, 1, Len(p)) = p

\* String.prototype.substring(from, to), zero-based, end exclusive, clamped
Substring(s, from, to) == SubSeq(s, Min(from, Len(s)) + 1, Min(to, Len(s)))

RECURSIVE TrimLeft(_)
TrimLeft(s) == IF s # <<>> /\ Head(s) = " " THEN TrimLeft(Tail(s)) ELSE s

RECURSIVE TrimRight(_)
TrimRight(s) ==
    IF s # <<>> /\ s[Len(s)] = " " THEN TrimRight(SubSeq(s, 1, Len(s) - 1)) ELSE s

\* String.prototype.trim
Trim(s) == TrimRight(TrimLeft(s))

HexChars == {"0", "1", "2", "3", "4", "5", "6", "7", "8", "9",
             "a", "b", "c", "d", "e", "f", "A", "B", "C", "D", "E", "F"}

\* /^[0-9a-fA-F]{64}$/.test(s)
KeyLen == 64

IsPrivateKeyFormat(s) == Len(s) = KeyLen /\ \A i \in 1..Len(s) : s[i] \in HexChars

GSC1     == <<"G", "S", "C", "1">>
GENESIS  == <<"G", "E", "N", "E", "S", "I", "S">>
COINBASE == <<"C", "O", "I", "N", "B", "A", "S", "E">>
WalletUnderscore == <<"W", "a", "l", "l", "e", "t", "_">>

----------------------------------------------------------------------------
(* Optional values (a JSON field that may be absent) and JavaScript ||   *)

None    == <<>>
Some(v) == <<v>>

\* opt || dflt for arrays and objects: every array or object is truthy
OrElse(opt, dflt) == IF opt = None THEN dflt ELSE opt[1]

\* opt || dflt for numbers: undefined and 0 are falsy
NumOrElse(opt, dflt) == IF opt = None \/ opt[1] = 0 THEN dflt ELSE opt[1]

\* n || dflt for a number that is present
NumOr(n, dflt) == IF n = 0 THEN dflt ELSE n

----------------------------------------------------------------------------
(* Maps { [address]: number } *)

EmptyMap == [a \in {} |-> 0]

Put(m, k, v) == [a \in DOMAIN m \cup {k} |-> IF a = k THEN v ELSE m[a]]

Has(m, k) == k \in DOMAIN m

----------------------------------------------------------------------------
(* Program constants *)

Fee == 2                       \* 0.1 GSC in units of 0.05 GSC
DefaultDifficulty == 4
DefaultMiningReward == 50
DefaultTotalSupply == 21750    \* 21 750 000 000 000, counted in 10^9
AddrKeyChars == 32
MinAddrLen == 35
MaxAddrLen == 36
TxIdLen == 64

----------------------------------------------------------------------------
(* Hashing and key derivation *)

\* crypto.subtle.digest('SHA-256', ...) rendered as hex: injective, 64 chars
Sha256Hex(input) == [digest |-> input, len |-> 64]

generatePublicKeyFromPrivate(privateKey) == Sha256Hex(privateKey)

\* `GSC1${privateKey.substring(0, 32)}`
AddressOfKey(privateKey) == GSC1 \o Substring(privateKey, 0, AddrKeyChars)

\* salt || iv || AES-GCM ciphertext, as one opaque value
encryptPrivateKey(privateKey, passphrase, salt, iv) ==
    <<"blob", salt, iv, passphrase, privateKey>>

\* what decryptPrivateKey gives: the text, or the error it throws
Decrypted(privateKey) == [result |-> "ok", key |-> Some(privateKey)]
DecryptFailed == [result |-> "error", key |-> None]

\* (a variant that never looks at the passphrase)
decryptPrivateKey_AnyPassphrase(encryptedKey, passphrase) ==
    IF Len(encryptedKey) = 5 /\ encryptedKey[1] = "blob"
    THEN Decrypted(encryptedKey[5])
    ELSE DecryptFailed

\* lines 497-542. Salt and iv are read back from the value itself; the AES key
\* derived from another passphrase fails the GCM tag check, and so does any
\* text that encryptPrivateKey did not make; every throw ends in the one error
decryptPrivateKey(encryptedKey, passphrase) ==
    IF Len(encryptedKey) = 5 /\ encryptedKey[1] = "blob"
          /\ encryptedKey[4] = passphrase
    THEN Decrypted(encryptedKey[5])
    ELSE DecryptFailed

\* generateGSCHash ignores its length parameter and returns the full digest
generateGSCHash(input, length) == Sha256Hex(input)

----------------------------------------------------------------------------
(* Input values *)

\* private keys the random source may return; KeyA and KeyA2 share their
\* first 32 characters (one address), KeyA and KeyB share their first 10
KeyA  == Rep("a", 64)
KeyA2 == Rep("a", 32) \o Rep("b", 32)
KeyB  == Rep("a", 10) \o Rep("b", 54)
KeyShort == Rep("a", 63)
KeyZZ == <<"z", "z">>

GenKeys    == {KeyA, KeyA2}
\* a well-formed key as pasted with a blank before and after it
KeyAPadded == <<" ">> \o KeyA \o <<" ">>

ImportKeys == {KeyA, KeyB, KeyShort, KeyZZ, KeyAPadded}

\* a 64-character key written with capital hexadecimal digits
KeyUpper == Rep("A", 64)

\* the keys given to importWallet where wallets are made on their own
WalletKeys == ImportKeys \cup {KeyUpper}

AddrA == AddressOfKey(KeyA)
AddrB == AddressOfKey(KeyB)
AddrShort == GSC1 \o <<"a", "b">>
AddrNoPrefix == <<"X", "Y", "Z">>

Receivers == {AddrA, AddrB, AddrShort, AddrNoPrefix}

\* an address of the right prefix and length whose key part is not hexadecimal
AddrNonHex   == GSC1 \o Rep("z", AddrKeyChars)
GenesisMixed == <<"G", "e", "n", "e", "s", "i", "s">>

\* arguments for direct calls of createTransaction and of the validation
TxAddresses == {AddrA, AddrB, AddrShort, AddrNoPrefix, AddrNonHex,
                GENESIS, COINBASE, GenesisMixed}
TxAmounts   == 0..MaxAmount
TxFees      == -1..Fee
Amounts   == 0..MaxAmount

\* the readings Date.now() may return; the wall clock may repeat a reading
Clock == 0..MaxClock

NameShortPadded == <<" ", "a", "$">>
NameBlank == <<" ">>
NameObserverA == WalletUnderscore \o Rep("a", 10)

Names == {NameShortPadded, NameBlank, NameObserverA}

Passphrases == {None, Some("pw")}
Salts == {"s1"}
Ivs   == {"iv1"}

\* finalized blocks and transactions an external snapshot may carry
Block(i, miner) ==
    [index |-> i, timestamp |-> 0, transactions |-> <<>>, previous_hash |-> "0",
     nonce |-> 0, hash |-> "h", merkle_root |-> "", difficulty |-> 4,
     miner |-> miner, reward |-> 0]

ExtTx ==
    [sender |-> GENESIS, receiver |-> AddrA, amount |-> 6, fee |-> 0,
     timestamp |-> 0, signature |-> None, tx_id |-> Sha256Hex(<<"ext">>)]

Snapshot(chain, mempool, pending, supply, balances, difficulty, reward) ==
    [chain |-> chain, mempool |-> mempool, pending_transactions |-> pending,
     total_supply |-> supply, balances |-> balances, difficulty |-> difficulty,
     mining_reward |-> reward]

\* a complete snapshot; its mempool takes precedence over its
\* pending_transactions
SnapFull ==
    Snapshot(Some(<<Block(0, "GENESIS"), Block(1, "m")>>), Some(<<ExtTx>>), Some(<<>>),
             Some(7), Some(Put(Put(Put(EmptyMap, AddrA, 4), AddrB, 3), GENESIS, 9)),
             Some(2), Some(9))

\* an externally authored snapshot: some fields absent, some zero or empty
SnapPartial ==
    Snapshot(None, None, Some(<<>>), Some(0),
             Some(Put(Put(EmptyMap, AddrA, -2), AddrNoPrefix, 1)), None, Some(0))

Snapshots == {SnapFull, SnapPartial}

\* a localStorage item: absent, unparsable text, or JSON text of a value
Absent   == [kind |-> "absent"]
Corrupt  == [kind |-> "corrupt"]
Json(v)  == [kind |-> "json", value |-> v]

----------------------------------------------------------------------------
(* State *)

VARIABLES
    blockchain,   \* this.blockchain
    stored,       \* localStorage item "gsc_blockchain_data"
    imported,     \* localStorage item "gsc_blockchain"
    calls,        \* async method calls that are suspended at an await
    last          \* what the most recently returned call reported

vars == <<blockchain, stored, imported, calls, last>>

----------------------------------------------------------------------------
(* Pure parts of the engine, as functions of the blockchain value *)

\* Array.prototype.find(w => w.address === address): index of first match, 0 if none
FindByAddress(wallets, address) ==
    IF \E i \in 1..Len(wallets) : wallets[i].address = address
    THEN CHOOSE i \in 1..Len(wallets) :
            /\ wallets[i].address = address
            /\ \A j \in 1..(i - 1) : wallets[j].address # address
    ELSE 0

FindByName(wallets, name) ==
    IF \E i \in 1..Len(wallets) : wallets[i].name = name
    THEN CHOOSE i \in 1..Len(wallets) :
            /\ wallets[i].name = name
            /\ \A j \in 1..(i - 1) : wallets[j].name # name
    ELSE 0

\* the lookup that asks the registry before the balances map
getWalletBalance_WalletFirst(bc, address) ==
    IF FindByAddress(bc.wallets, address) # 0
    THEN bc.wallets[FindByAddress(bc.wallets, address)].balance
    ELSE IF Has(bc.balances, address) THEN bc.balances[address]
         ELSE 0

getWalletBalance(bc, address) ==
    IF Has(bc.balances, address) THEN bc.balances[address]
    ELSE IF FindByAddress(bc.wallets, address) # 0
         THEN bc.wallets[FindByAddress(bc.wallets, address)].balance
         ELSE 0

\* (an update that writes the balances map only)
updateWalletBalance_LedgerOnly(bc, address, newBalance) ==
    [bc EXCEPT !.balances = Put(bc.balances, address, Max(0, newBalance))]

updateWalletBalance(bc, address, newBalance) ==
    LET i == FindByAddress(bc.wallets, address)
    IN  [bc EXCEPT
            !.balances = Put(bc.balances, address, Max(0, newBalance)),
            !.wallets  = IF i = 0 THEN bc.wallets
                         ELSE [bc.wallets EXCEPT ![i].balance = Max(0, newBalance)]]

\* (a variant that takes the balance as the snapshot gives it)
ObserverWallet_Unfloored(address, balance) ==
    [name |-> WalletUnderscore \o Substring(address, 4, 14),
     address |-> address, private_key |-> <<>>, public_key |-> <<>>,
     balance |-> balance, encrypted |-> FALSE]

\* (a listing with the latest wallet first)
getWallets_LatestFirst(bc) ==
    [i \in 1..Len(bc.wallets) |-> bc.wallets[Len(bc.wallets) + 1 - i]]

\* lines 151-156: the registry's own array
getWallets(bc) == bc.wallets

\* getBlockchainStats line 729: the sum of the wallets' cached balances
RECURSIVE circulatingSupply(_)
circulatingSupply(wallets) ==
    IF wallets = <<>> THEN 0
    ELSE Head(wallets).balance + circulatingSupply(Tail(wallets))

\* the wallet synthesized for a balances entry of an external snapshot
ObserverWallet(address, balance) ==
    [name |-> WalletUnderscore \o Substring(address, 4, 14),
     address |-> address, private_key |-> <<>>, public_key |-> <<>>,
     balance |-> Max(0, balance), encrypted |-> FALSE]

IsObserverAddress(address) ==
    address # GENESIS /\ address # COINBASE /\ StartsWith(address, GSC1)

\* the orders in which Object.entries may list the keys of a map
KeyOrders(m) ==
    {o \in [1..Cardinality(DOMAIN m) -> DOMAIN m] :
        \A i, j \in DOMAIN o : i # j => o[i] # o[j]}

GenesisBlock(t) ==
    [index |-> 0, timestamp |-> t, transactions |-> <<>>, previous_hash |-> "0",
     nonce |-> 0, hash |-> "genesis_hash", merkle_root |-> "", difficulty |-> 4,
     miner |-> "GENESIS", reward |-> 0]

\* (a variant that leaves the chain empty)
createGenesisBlock_NoBlock(t) ==
    [chain |-> <<>>, pending_transactions |-> <<>>, wallets |-> <<>>,
     total_supply |-> DefaultTotalSupply, balances |-> EmptyMap,
     difficulty |-> DefaultDifficulty, mining_reward |-> DefaultMiningReward]

createGenesisBlock(t) ==
    [chain |-> <<GenesisBlock(t)>>, pending_transactions |-> <<>>, wallets |-> <<>>,
     total_supply |-> DefaultTotalSupply, balances |-> EmptyMap,
     difficulty |-> DefaultDifficulty, mining_reward |-> DefaultMiningReward]

\* loadBlockchain, branch "imported blockchain data found"
RECURSIVE ImportedWallets(_, _, _)
ImportedWallets(balances, order, i) ==
    IF i > Len(order) THEN <<>>
    ELSE (IF IsObserverAddress(order[i])
          THEN <<ObserverWallet(order[i], balances[order[i]])>>
          ELSE <<>>) \o ImportedWallets(balances, order, i + 1)

LoadImported(data, order) ==
    [chain |-> OrElse(data.chain, <<>>),
     pending_transactions |->
        OrElse(data.mempool, OrElse(data.pending_transactions, <<>>)),
     wallets |-> IF data.balances = None THEN <<>>
                 ELSE ImportedWallets(data.balances[1], order, 1),
     total_supply |-> NumOrElse(data.total_supply, DefaultTotalSupply),
     balances |-> OrElse(data.balances, EmptyMap),
     difficulty |-> NumOrElse(data.difficulty, DefaultDifficulty),
     mining_reward |-> NumOrElse(data.mining_reward, DefaultMiningReward)]

\* initializeBlockchainAfterImport on a value parsed from the local snapshot
initializeBlockchainAfterImport(bc) ==
    [bc EXCEPT !.difficulty    = NumOr(bc.difficulty, DefaultDifficulty),
               !.mining_reward = NumOr(bc.mining_reward, DefaultMiningReward),
               !.total_supply  = NumOr(bc.total_supply, 0)]

saveBlockchain(bc) == Json(bc)

\* loadBlockchain: the engine value and the two localStorage items it leaves
loadBlockchain(imp, sto, t, order) ==
    IF imp.kind = "json"
    THEN LET bc == LoadImported(imp.value, order)
         IN  [bc |-> bc, imported |-> Absent, stored |-> saveBlockchain(bc),
              result |-> "imported"]
    ELSE IF imp.kind = "corrupt" \/ sto.kind = "corrupt"
    THEN \* JSON.parse throws; the catch block creates and saves genesis
         [bc |-> createGenesisBlock(t), imported |-> imp,
          stored |-> saveBlockchain(createGenesisBlock(t)), result |-> "error"]
    ELSE IF sto.kind = "json"
    THEN [bc |-> initializeBlockchainAfterImport(sto.value), imported |-> imp,
          stored |-> sto, result |-> "local"]
    ELSE [bc |-> createGenesisBlock(t), imported |-> imp,
          stored |-> saveBlockchain(createGenesisBlock(t)), result |-> "genesis"]

\* (a variant whose text leaves the balances out)
exportBlockchain_NoBalances(bc) ==
    Json(Snapshot(Some(bc.chain), None, Some(bc.pending_transactions),
                  Some(NumOr(bc.total_supply, 0)), None,
                  Some(NumOr(bc.difficulty, DefaultDifficulty)),
                  Some(NumOr(bc.mining_reward, DefaultMiningReward)))
         @@ [wallets |-> Some(bc.wallets)])

\* exportBlockchain: the JSON text of the engine's fields, defaults put in for
\* falsy numbers; the text has no mempool field
exportBlockchain(bc) ==
    Json(Snapshot(Some(bc.chain), None, Some(bc.pending_transactions),
                  Some(NumOr(bc.total_supply, 0)), Some(bc.balances),
                  Some(NumOr(bc.difficulty, DefaultDifficulty)),
                  Some(NumOr(bc.mining_reward, DefaultMiningReward)))
         @@ [wallets |-> Some(bc.wallets)])

\* the key orders that matter to loadBlockchain / refreshBlockchainData
OrdersOf(item) ==
    IF item.kind = "json" /\ item.value.balances # None
    THEN KeyOrders(item.value.balances[1])
    ELSE {<<>>}

\* refreshBlockchainData, lines 819-868: merge of a parsed external snapshot
RECURSIVE RefreshedWallets(_, _, _, _)
RefreshedWallets(existingWallets, balances, order, i) ==
    IF i > Len(order) THEN existingWallets
    ELSE RefreshedWallets(
            IF /\ IsObserverAddress(order[i])
               /\ FindByAddress(existingWallets, order[i]) = 0
            THEN Append(existingWallets, ObserverWallet(order[i], balances[order[i]]))
            ELSE existingWallets,
            balances, order, i + 1)

\* the update that leaves the cached balance of existing wallets alone
UpdatedWallet_KeepsCached(wallet, balances) == wallet

UpdatedWallet(wallet, balances) ==
    IF Has(balances, wallet.address)
    THEN [wallet EXCEPT !.balance = Max(0, balances[wallet.address])]
    ELSE wallet

refreshMerge(bc, data, order) ==
    LET balances == OrElse(data.balances, bc.balances)
        updated  == [i \in 1..Len(bc.wallets) |-> UpdatedWallet(bc.wallets[i], balances)]
    IN  [chain |-> OrElse(data.chain, bc.chain),
         pending_transactions |->
            OrElse(data.mempool,
                   OrElse(data.pending_transactions, bc.pending_transactions)),
         wallets |-> IF data.balances = None THEN updated
                     ELSE RefreshedWallets(updated, data.balances[1], order, 1),
         total_supply  |-> NumOrElse(data.total_supply, bc.total_supply),
         balances      |-> balances,
         difficulty    |-> NumOrElse(data.difficulty, bc.difficulty),
         mining_reward |-> NumOrElse(data.mining_reward, bc.mining_reward)]

----------------------------------------------------------------------------
(* Transactions *)

calculateGSCTransactionHash(tx) ==
    generateGSCHash(<<tx.sender, tx.receiver, tx.amount, tx.fee, tx.timestamp>>, 64)

signGSCTransaction(tx) ==
    generateGSCHash(<<tx.tx_id, tx.sender, tx.timestamp>>, 16)

validateGSCAddress(address) ==
    IF address = <<>> THEN FALSE
    ELSE IF address = COINBASE \/ address = GENESIS \/ address = GenesisMixed
    THEN TRUE
    ELSE IF ~StartsWith(address, GSC1) THEN FALSE
    ELSE IF Len(address) < MinAddrLen \/ Len(address) > MaxAddrLen THEN FALSE
    ELSE TRUE      \* parseInt(hexPart, 16) never throws

\* the check without its sender-is-receiver line
validateGSCTransaction_AllowsSelf(tx) ==
    IF tx.amount <= 0 THEN FALSE
    ELSE IF tx.fee < 0 THEN FALSE
    ELSE IF ~validateGSCAddress(tx.sender) THEN FALSE
    ELSE IF ~validateGSCAddress(tx.receiver) THEN FALSE
    ELSE IF tx.tx_id.len # TxIdLen THEN FALSE
    ELSE TRUE

validateGSCTransaction(tx) ==
    IF tx.amount <= 0 THEN FALSE
    ELSE IF tx.fee < 0 THEN FALSE
    ELSE IF tx.sender = tx.receiver THEN FALSE
    ELSE IF ~validateGSCAddress(tx.sender) THEN FALSE
    ELSE IF ~validateGSCAddress(tx.receiver) THEN FALSE
    ELSE IF tx.tx_id.len # TxIdLen THEN FALSE
    ELSE TRUE

\* createTransaction up to its first await: fee rule and the unsigned record
MinFeeViolated(sender, fee) ==
    sender # COINBASE /\ sender # GENESIS /\ NumOr(fee, Fee) < Fee

UnsignedTransaction(sender, receiver, amount, fee, t) ==
    [sender |-> sender, receiver |-> receiver, amount |-> amount,
     fee |-> NumOr(fee, Fee), timestamp |-> t]

\* createTransaction after its awaits: tx_id, then signature
SignedTransaction(utx) ==
    LET withId == [sender |-> utx.sender, receiver |-> utx.receiver,
                   amount |-> utx.amount, fee |-> utx.fee,
                   timestamp |-> utx.timestamp,
                   tx_id |-> calculateGSCTransactionHash(utx)]
    IN  [sender |-> withId.sender, receiver |-> withId.receiver,
         amount |-> withId.amount, fee |-> withId.fee,
         timestamp |-> withId.timestamp, tx_id |-> withId.tx_id,
         signature |-> signGSCTransaction(withId)]

\* (a variant in which a wallet without a private key has nothing to send)
SendBalance_NeedsKey(bc, senderWallet) ==
    IF senderWallet.private_key = <<>> THEN 0
    ELSE IF getWalletBalance(bc, senderWallet.address) = 0 /\ senderWallet.balance > 0
    THEN senderWallet.balance
    ELSE getWalletBalance(bc, senderWallet.address)

\* sendTransaction lines 607-616: the balance send works with, and the ledger
\* after the first-use write
SendBalance(bc, senderWallet) ==
    IF getWalletBalance(bc, senderWallet.address) = 0 /\ senderWallet.balance > 0
    THEN senderWallet.balance
    ELSE getWalletBalance(bc, senderWallet.address)

SendBootstrap(bc, senderWallet) ==
    IF getWalletBalance(bc, senderWallet.address) = 0 /\ senderWallet.balance > 0
    THEN [bc EXCEPT !.balances = Put(bc.balances, senderWallet.address,
                                     senderWallet.balance)]
    ELSE bc

\* the funds check with <= in place of <
SendPrecheck_RejectsExact(receiver, amount, balance) ==
    IF ~StartsWith(receiver, GSC1) THEN "invalid_address"
    ELSE IF amount <= 0 THEN "invalid_amount"
    ELSE IF balance <= amount + Fee THEN "insufficient"
    ELSE "none"

\* the checks with the amount looked at before the receiver
SendPrecheck_AmountFirst(receiver, amount, balance) ==
    IF amount <= 0 THEN "invalid_amount"
    ELSE IF ~StartsWith(receiver, GSC1) THEN "invalid_address"
    ELSE IF balance < amount + Fee THEN "insufficient"
    ELSE "none"

\* sendTransaction lines 618-628: the first check that fails, or "none"
SendPrecheck(receiver, amount, balance) ==
    IF ~StartsWith(receiver, GSC1) THEN "invalid_address"
    ELSE IF amount <= 0 THEN "invalid_amount"
    ELSE IF balance < amount + Fee THEN "insufficient"
    ELSE "none"

\* sendTransaction lines 636-643: pending append and the two balance updates
SendApply(bc, tx, balance) ==
    LET pushed  == [bc EXCEPT !.pending_transactions = Append(@, tx)]
        debited == updateWalletBalance(pushed, tx.sender, balance - tx.amount - Fee)
    IN  updateWalletBalance(debited, tx.receiver,
                            getWalletBalance(debited, tx.receiver) + tx.amount)

\* sendTransaction run from start to end with no other call in between, as a
\* function of the engine and the arguments: what it reports and the engine
\* it leaves
SendOutcome(bc, w, receiver, amount, t) ==
    LET senderWallet == bc.wallets[w]
        balance      == SendBalance(bc, senderWallet)
        started      == SendBootstrap(bc, senderWallet)
        failure      == SendPrecheck(receiver, amount, balance)
        tx           == SignedTransaction(
                            UnsignedTransaction(senderWallet.address, receiver,
                                                amount, Fee, t))
    IN  IF failure # "none" THEN [result |-> failure, bc |-> started]
        ELSE IF MinFeeViolated(senderWallet.address, Fee)
        THEN [result |-> "fee_too_low", bc |-> started]
        ELSE IF ~validateGSCTransaction(tx)
        THEN [result |-> "validation_failed", bc |-> started]
        ELSE [result |-> "ok", bc |-> SendApply(started, tx, balance)]

----------------------------------------------------------------------------
(* Calls *)

Idle == [op |-> "idle"]

CallIds == 1..MaxCalls

NoneInFlight == \A c \in CallIds : calls[c] = Idle

\* a new call takes the lowest free slot
FreeSlot(c) == calls[c] = Idle /\ \A d \in 1..(c - 1) : calls[d] # Idle

InFlight(ops) == Cardinality({c \in CallIds : calls[c].op \in ops})

\* last is a history variable: what the most recently returned call reported.
\* A behaviour that starts with last = NotObserved keeps no such record.
NotObserved == [op |-> "none", result |-> "none"]

Report(op, result) ==
    IF last = NotObserved THEN NotObserved ELSE [op |-> op, result |-> result]

\* the record of a send that got as far as its broadcast
\* and of the message, if any, that went to the relay
ReportBroadcast(result, delivery, payload) ==
    IF last = NotObserved THEN NotObserved
    ELSE [op |-> "sendTransaction", result |-> result, broadcast |-> delivery,
          payload |-> payload]

\* the record of a send that the validation turned down: between whom it was
ReportInvalid(tx) ==
    IF last = NotObserved THEN NotObserved
    ELSE [op |-> "sendTransaction", result |-> "validation_failed",
          sender |-> tx.sender, receiver |-> tx.receiver]

Returns(c, op, result) ==
    /\ calls' = [calls EXCEPT ![c] = Idle]
    /\ last' = Report(op, result)

\* a call that returns before its first await never occupies a slot
ReturnsAtOnce(op, result) ==
    /\ last' = Report(op, result)
    /\ UNCHANGED calls

Commit(bc) ==
    /\ blockchain' = bc
    /\ stored' = saveBlockchain(bc)

\* the model follows a call that is going to add a wallet only while the
\* registry, with the wallets of the calls in flight, is short
MayAddWallet ==
    Len(blockchain.wallets)
        + InFlight({"createWallet", "importWallet", "importWalletWithAddress"})
      < MaxWallets

----------------------------------------------------------------------------
(* Initial state: the constructor has run loadBlockchain on a fresh profile, *)
(* into which an external snapshot may already have been dropped.            *)

InitialImports == {Absent, Corrupt} \cup {Json(s) : s \in Snapshots}

Constructed(observed) ==
    /\ calls = [c \in CallIds |-> Idle]
    /\ \E imp \in InitialImports, t \in Clock : \E order \in OrdersOf(imp) :
          LET r == loadBlockchain(imp, Absent, t, order)
          IN  /\ blockchain = r.bc
              /\ stored = r.stored
              /\ imported = r.imported
              /\ last = IF observed THEN [op |-> "load", result |-> r.result]
                        ELSE NotObserved

Init == Constructed(TRUE)

InitAsync == Constructed(FALSE)

----------------------------------------------------------------------------
(* createWallet *)

NewWallet(name, address, private_key, public_key, balance, encrypted) ==
    [name |-> name, address |-> address, private_key |-> private_key,
     public_key |-> public_key, balance |-> balance, encrypted |-> encrypted]

\* lines 231-251: name checks, key generation, await of the public key
CreateWalletBegin(c, name, passphrase, privateKey) ==
    /\ FreeSlot(c)
    /\ UNCHANGED <<blockchain, stored, imported>>
    /\ IF Trim(name) = <<>>
       THEN ReturnsAtOnce("createWallet", "name_required")
       ELSE IF FindByName(blockchain.wallets, Trim(name)) # 0
       THEN ReturnsAtOnce("createWallet", "name_exists")
       ELSE /\ MayAddWallet
            /\ calls' = [calls EXCEPT ![c] =
                    [op |-> "createWallet", pc |-> "publicKey", name |-> name,
                     passphrase |-> passphrase, privateKey |-> privateKey]]
            /\ UNCHANGED last

CreatedWallet(call, private_key) ==
    NewWallet(Trim(call.name), AddressOfKey(call.privateKey), private_key,
              generatePublicKeyFromPrivate(call.privateKey), 0,
              call.passphrase # None)

\* lines 253-275 without a passphrase; lines 253-265 with one (await of encrypt)
CreateWalletResume(c) ==
    /\ calls[c].op = "createWallet" /\ calls[c].pc = "publicKey"
    /\ UNCHANGED imported
    /\ IF FindByAddress(blockchain.wallets, AddressOfKey(calls[c].privateKey)) # 0
       THEN /\ Returns(c, "createWallet", "address_collision")
            /\ UNCHANGED <<blockchain, stored>>
       ELSE IF calls[c].passphrase # None
       THEN /\ calls' = [calls EXCEPT ![c].pc = "encrypt"]
            /\ UNCHANGED <<blockchain, stored, last>>
       ELSE /\ Commit([blockchain EXCEPT !.wallets =
                    Append(@, CreatedWallet(calls[c], calls[c].privateKey))])
            /\ Returns(c, "createWallet", "ok")

\* lines 265-275 with a passphrase
CreateWalletFinish(c) ==
    /\ calls[c].op = "createWallet" /\ calls[c].pc = "encrypt"
    /\ UNCHANGED imported
    /\ \E salt \in Salts, iv \in Ivs :
          Commit([blockchain EXCEPT !.wallets =
              Append(@, CreatedWallet(calls[c],
                  encryptPrivateKey(calls[c].privateKey, calls[c].passphrase[1],
                                    salt, iv)))])
    /\ Returns(c, "createWallet", "ok")

----------------------------------------------------------------------------
(* importWallet *)

\* the checks of importWallet without the one of lines 310-314
ImportPrecheck_NoAddressCheck(bc, name, privateKey) ==
    IF Trim(name) = <<>> THEN "name_required"
    ELSE IF Trim(privateKey) = <<>> THEN "key_required"
    ELSE IF ~IsPrivateKeyFormat(Trim(privateKey)) THEN "invalid_key_format"
    ELSE IF FindByName(bc.wallets, Trim(name)) # 0 THEN "name_exists"
    ELSE "none"

\* the checks of importWallet without the format check of lines 297-299
ImportPrecheck_NoFormatCheck(bc, name, privateKey) ==
    IF Trim(name) = <<>> THEN "name_required"
    ELSE IF Trim(privateKey) = <<>> THEN "key_required"
    ELSE IF FindByName(bc.wallets, Trim(name)) # 0 THEN "name_exists"
    ELSE IF FindByAddress(bc.wallets, AddressOfKey(Trim(privateKey))) # 0
         THEN "address_exists"
    ELSE "none"

\* lines 284-314: the first check that fails, or "none"
ImportPrecheck(bc, name, privateKey) ==
    IF Trim(name) = <<>> THEN "name_required"
    ELSE IF Trim(privateKey) = <<>> THEN "key_required"
    ELSE IF ~IsPrivateKeyFormat(Trim(privateKey)) THEN "invalid_key_format"
    ELSE IF FindByName(bc.wallets, Trim(name)) # 0 THEN "name_exists"
    ELSE IF FindByAddress(bc.wallets, AddressOfKey(Trim(privateKey))) # 0
         THEN "address_exists"
    ELSE "none"

\* lines 279-317
ImportWalletBegin(c, name, privateKey) ==
    /\ FreeSlot(c)
    /\ UNCHANGED <<blockchain, stored, imported>>
    /\ IF ImportPrecheck(blockchain, name, privateKey) # "none"
       THEN ReturnsAtOnce("importWallet", ImportPrecheck(blockchain, name, privateKey))
       ELSE /\ MayAddWallet
            /\ calls' = [calls EXCEPT ![c] =
                    [op |-> "importWallet", pc |-> "publicKey", name |-> Trim(name),
                     cleanPrivateKey |-> Trim(privateKey),
                     address |-> AddressOfKey(Trim(privateKey))]]
            /\ UNCHANGED last

ImportedWallet(bc, call) ==
    NewWallet(call.name, call.address, call.cleanPrivateKey,
              generatePublicKeyFromPrivate(call.cleanPrivateKey),
              getWalletBalance(bc, call.address), FALSE)

\* lines 319-335
ImportWalletResume(c) ==
    /\ calls[c].op = "importWallet"
    /\ UNCHANGED imported
    /\ Commit([blockchain EXCEPT !.wallets =
            Append(@, ImportedWallet(blockchain, calls[c]))])
    /\ Returns(c, "importWallet", "ok")

----------------------------------------------------------------------------
(* importWalletWithAddress (legacy) *)

LegacyNames     == {NameObserverA}
LegacyAddresses == {AddrA, AddrB}
LegacyPublicKeys == {None, Some(generatePublicKeyFromPrivate(KeyA))}

LegacyWallet(name, address, private_key, public_key, balance) ==
    NewWallet(name, address, private_key,
              OrElse(public_key, generatePublicKeyFromPrivate(private_key)),
              balance, FALSE)

\* lines 339-356; with a public key given there is no await and it runs to the end
ImportWalletWithAddressBegin(c, name, address, private_key, public_key) ==
    /\ FreeSlot(c)
    /\ UNCHANGED imported
    /\ IF FindByAddress(blockchain.wallets, address) # 0
       THEN /\ ReturnsAtOnce("importWalletWithAddress", "address_exists")
            /\ UNCHANGED <<blockchain, stored>>
       ELSE IF public_key # None
       THEN /\ MayAddWallet
            /\ Commit([blockchain EXCEPT !.wallets =
                    Append(@, LegacyWallet(name, address, private_key, public_key,
                                           getWalletBalance(blockchain, address)))])
            /\ ReturnsAtOnce("importWalletWithAddress", "ok")
       ELSE /\ MayAddWallet
            /\ calls' = [calls EXCEPT ![c] =
                    [op |-> "importWalletWithAddress", pc |-> "publicKey",
                     name |-> name, address |-> address, private_key |-> private_key,
                     balance |-> getWalletBalance(blockchain, address)]]
            /\ UNCHANGED <<blockchain, stored, last>>

\* lines 356-365
ImportWalletWithAddressResume(c) ==
    /\ calls[c].op = "importWalletWithAddress"
    /\ UNCHANGED imported
    /\ Commit([blockchain EXCEPT !.wallets =
            Append(@, LegacyWallet(calls[c].name, calls[c].address,
                                   calls[c].private_key, None, calls[c].balance))])
    /\ Returns(c, "importWalletWithAddress", "ok")

----------------------------------------------------------------------------
(* sendTransaction *)

\* the model follows a send that passes its checks only while pending is short
MaySend == Len(blockchain.pending_transactions) < MaxPending

\* lines 600-630 and createTransaction lines 545-562, up to the first await.
\* senderWallet is the registry's wallet object number w.
SendBegin(c, w, receiver, amount, t) ==
    LET senderWallet == blockchain.wallets[w]
        balance      == SendBalance(blockchain, senderWallet)
        failure      == SendPrecheck(receiver, amount, balance)
    IN  /\ FreeSlot(c)
        /\ UNCHANGED <<stored, imported>>
        /\ blockchain' = SendBootstrap(blockchain, senderWallet)
        /\ IF failure # "none"
           THEN ReturnsAtOnce("sendTransaction", failure)
           ELSE IF MinFeeViolated(senderWallet.address, Fee)
           THEN ReturnsAtOnce("sendTransaction", "fee_too_low")
           ELSE /\ MaySend
                /\ calls' = [calls EXCEPT ![c] =
                        [op |-> "sendTransaction", pc |-> "hash", balance |-> balance,
                         tx |-> UnsignedTransaction(senderWallet.address, receiver,
                                                    amount, Fee, t)]]
                /\ UNCHANGED last

\* createTransaction lines 564-570 and sendTransaction lines 632-648,
\* up to the await of the broadcast
SendCommit(c) ==
    /\ calls[c].op = "sendTransaction" /\ calls[c].pc = "hash"
    /\ UNCHANGED imported
    /\ LET tx == SignedTransaction(calls[c].tx)
       IN  IF ~validateGSCTransaction(tx)
           THEN /\ calls' = [calls EXCEPT ![c] = Idle]
                /\ last' = ReportInvalid(tx)
                /\ UNCHANGED <<blockchain, stored>>
           ELSE /\ Commit(SendApply(blockchain, tx, calls[c].balance))
                /\ calls' = [calls EXCEPT ![c].pc = "broadcast"]
                /\ UNCHANGED last

\* What the relay answers during one broadcastTransaction: whether getMe
\* reports the bot as ok, whether a sendMessage to one of the two configured
\* chat ids is accepted, whether one to a chat id found by getUpdates is.
\* A fetch that throws counts as an answer that is not ok.
RelayAnswers == [getMe : BOOLEAN, direct : BOOLEAN, discovered : BOOLEAN]

\* broadcastTransaction: how the delivery went. Every path returns normally;
\* the catch blocks only log.
broadcastTransaction(answers) ==
    IF ~answers.getMe THEN "bot_rejected"
    ELSE IF answers.direct \/ answers.discovered THEN "delivered"
    ELSE "undelivered"

\* lines 902-915: the message broadcastTransaction posts for a transaction
structuredMessage(transaction, now) ==
    [type |-> "GSC_TRANSACTION", timestamp |-> now,
     transaction |->
        [tx_id |-> transaction.tx_id, sender |-> transaction.sender,
         receiver |-> transaction.receiver, amount |-> transaction.amount,
         fee |-> transaction.fee, timestamp |-> transaction.timestamp,
         signature |-> transaction.signature]]

\* the message is built, and posted, only once getMe has reported the bot ok
PostedMessage(answers, transaction, now) ==
    IF answers.getMe THEN Some(structuredMessage(transaction, now)) ELSE None

\* a send that reports failure unless the broadcast was delivered
SendResult_NeedsDelivery(delivery) ==
    IF delivery = "delivered" THEN "ok" ELSE "broadcast_failed"

\* lines 648-655: what sendTransaction returns once the broadcast has settled
SendResult(delivery) == "ok"

\* lines 648-655: broadcastTransaction has settled, however it went
SendReturn(c) ==
    /\ calls[c].op = "sendTransaction" /\ calls[c].pc = "broadcast"
    /\ UNCHANGED <<blockchain, stored, imported>>
    /\ calls' = [calls EXCEPT ![c] = Idle]
    /\ \E answers \in RelayAnswers, now \in Clock :
          LET delivery == broadcastTransaction(answers)
              posted   == PostedMessage(answers, SignedTransaction(calls[c].tx), now)
          IN  last' = ReportBroadcast(SendResult(delivery), delivery, posted)

----------------------------------------------------------------------------
(* createTransaction and the validation, called on their own *)

\* a direct call of createTransaction with its arguments, about to run
CreateTransactionCall(sender, receiver, amount, fee, t) ==
    [op |-> "createTransaction",
     args |-> [sender |-> sender, receiver |-> receiver, amount |-> amount,
               fee |-> fee, timestamp |-> t]]

\* createTransaction, lines 545-571: throws on a fee under the minimum, else
\* resolves to the signed transaction. It reads and writes no engine state.
CreateTransaction(c) ==
    /\ calls[c].op = "createTransaction"
    /\ UNCHANGED <<blockchain, stored, imported>>
    /\ calls' = [calls EXCEPT ![c] = Idle]
    /\ LET args == calls[c].args
       IN  last' = IF MinFeeViolated(args.sender, args.fee)
                   THEN [op |-> "createTransaction", result |-> "fee_too_low",
                         args |-> args, tx |-> None]
                   ELSE [op |-> "createTransaction", result |-> "ok",
                         args |-> args,
                         tx |-> Some(SignedTransaction(
                                  UnsignedTransaction(args.sender, args.receiver,
                                      args.amount, args.fee, args.timestamp)))]

\* the transaction records the validation is applied to: any sender, receiver,
\* amount and fee, with the tx_id createTransaction computes or with none
TransactionOf(sender, receiver, amount, fee, t, hashed) ==
    LET utx == [sender |-> sender, receiver |-> receiver, amount |-> amount,
                fee |-> fee, timestamp |-> t]
        tx  == SignedTransaction(utx)
    IN  IF hashed THEN tx
        ELSE [tx EXCEPT !.tx_id = [digest |-> <<>>, len |-> 0]]

ValidateCall(tx) == [op |-> "validateGSCTransaction", tx |-> tx]

\* validateGSCTransaction, lines 667-675, applied to one record
ValidateTransaction(c) ==
    /\ calls[c].op = "validateGSCTransaction"
    /\ UNCHANGED <<blockchain, stored, imported>>
    /\ calls' = [calls EXCEPT ![c] = Idle]
    /\ last' = [op |-> "validateGSCTransaction",
                result |-> IF validateGSCTransaction(calls[c].tx) THEN "accepted"
                           ELSE "rejected",
                tx |-> calls[c].tx]

----------------------------------------------------------------------------
(* Snapshots, restart, clock *)

\* What a call finds under the key "gsc_blockchain": the item left there, or
\* one that another part of the application has stored since.
Found(item) == item = imported \/ item \in InitialImports \ {Absent}

\* refreshBlockchainData; with no external item it returns at once
RefreshBlockchainData(item) ==
    /\ Found(item)
    /\ item # Absent
    /\ UNCHANGED calls
    /\ IF item = Corrupt
       THEN \* JSON.parse throws and the catch block only logs
            /\ last' = Report("refresh", "error")
            /\ imported' = item
            /\ UNCHANGED <<blockchain, stored>>
       ELSE \E order \in OrdersOf(item) :
               /\ Commit(refreshMerge(blockchain, item.value, order))
               /\ imported' = Absent
               /\ last' = Report("refresh", "ok")

\* What the constructor finds under storage_key: the snapshot last saved, or
\* nothing or unreadable text if the profile was cleared or damaged since.
FoundLocal(local) == local \in {stored, Absent, Corrupt}

\* the page is loaded again: a new service object runs its constructor, and
\* the calls of the old one are gone
Restart(item, local) ==
    /\ Found(item)
    /\ FoundLocal(local)
    /\ calls' = [c \in CallIds |-> Idle]
    /\ \E order \in OrdersOf(item), t \in Clock :
          LET r == loadBlockchain(item, local, t, order)
          IN  /\ blockchain' = r.bc
              /\ stored' = r.stored
              /\ imported' = r.imported
              /\ last' = Report("load", r.result)

----------------------------------------------------------------------------
(* Specifications *)

\* the program as written, with callers that serialize: a call starts, and a
\* snapshot is loaded or merged, only when no call is in flight
CreateWallet ==
    \E c \in CallIds, name \in Names, passphrase \in Passphrases, key \in GenKeys :
        NoneInFlight /\ CreateWalletBegin(c, name, passphrase, key)

ImportWallet ==
    \E c \in CallIds, name \in Names, key \in ImportKeys :
        NoneInFlight /\ ImportWalletBegin(c, name, key)

ImportWalletWithAddress ==
    \E c \in CallIds, name \in LegacyNames, address \in LegacyAddresses,
       public_key \in LegacyPublicKeys :
        NoneInFlight /\ ImportWalletWithAddressBegin(c, name, address, KeyA, public_key)

SendTransaction ==
    \E c \in CallIds, w \in 1..Len(blockchain.wallets), receiver \in Receivers,
       amount \in Amounts, t \in Clock :
        NoneInFlight /\ SendBegin(c, w, receiver, amount, t)

Resume ==
    \E c \in CallIds :
        \/ CreateWalletResume(c)
        \/ CreateWalletFinish(c)
        \/ ImportWalletResume(c)
        \/ ImportWalletWithAddressResume(c)
        \/ SendCommit(c)
        \/ SendReturn(c)

Refresh == \E item \in InitialImports : NoneInFlight /\ RefreshBlockchainData(item)

\* (with an external item present, loadBlockchain never looks at the local one)
Reload ==
    \E item \in InitialImports, local \in {stored, Absent, Corrupt} :
        /\ NoneInFlight
        /\ item = Absent \/ local = stored
        /\ Restart(item, local)

Next ==
    \/ CreateWallet
    \/ ImportWallet
    \/ ImportWalletWithAddress
    \/ SendTransaction
    \/ Resume
    \/ Refresh
    \/ Reload

Spec == Init /\ [][Next]_vars

\* the program as written, with callers that do not wait: calls interleave at
\* their awaits.  The inputs are fewer; the actions are the same.
AsyncNames     == {NameShortPadded, NameObserverA}
AsyncReceivers == {AddrA, AddrB, AddrNoPrefix}

AsyncCreateWallet ==
    \E c \in CallIds, name \in AsyncNames :
        CreateWalletBegin(c, name, None, KeyA2)

AsyncImportWallet ==
    \E c \in CallIds, name \in AsyncNames : ImportWalletBegin(c, name, KeyA)

AsyncSendTransaction ==
    \E c \in CallIds, w \in 1..Len(blockchain.wallets), receiver \in AsyncReceivers,
       amount \in 1..MaxAmount, t \in Clock :
        SendBegin(c, w, receiver, amount, t)

AsyncRefresh == RefreshBlockchainData(Json(SnapFull))

AsyncReload == Restart(Absent, stored)

AsyncResume ==
    \E c \in CallIds :
        \/ CreateWalletResume(c)
        \/ ImportWalletResume(c)
        \/ SendCommit(c)
        \/ SendReturn(c)

NextAsync ==
    \/ AsyncCreateWallet
    \/ AsyncImportWallet
    \/ AsyncSendTransaction
    \/ AsyncResume
    \/ AsyncRefresh
    \/ AsyncReload

SpecAsync == InitAsync /\ [][NextAsync]_vars

\* the engine as its constructor leaves it on a profile holding this external
\* item and no local snapshot
ConstructedFrom(item) ==
    \E t \in Clock : \E order \in OrdersOf(item) :
        LET r == loadBlockchain(item, Absent, t, order)
        IN  /\ blockchain = r.bc
            /\ stored = r.stored
            /\ imported = r.imported
            /\ last = [op |-> "load", result |-> r.result]

\* The making of wallets on its own: an engine constructed on an empty
\* profile, in which wallets are created and imported with keys of every
\* kind, each call run to its end before the next.
InitWallet ==
    /\ calls = [c \in CallIds |-> Idle]
    /\ ConstructedFrom(Absent)

WalletImport ==
    \E c \in CallIds, name \in Names, key \in WalletKeys :
        NoneInFlight /\ ImportWalletBegin(c, name, key)

WalletResume ==
    \E c \in CallIds :
        \/ CreateWalletResume(c)
        \/ CreateWalletFinish(c)
        \/ ImportWalletResume(c)

NextWallet == CreateWallet \/ WalletImport \/ WalletResume

SpecWallet == InitWallet /\ [][NextWallet]_vars

----------------------------------------------------------------------------
(* Mnemonic phrases *)

\* two words of generateMnemonic's list, and word lists of 12 words and of
\* other lengths
MnemonicLen == 12
MnemonicLists ==
    LET words == Rep("abandon", MnemonicLen)
    IN  {words,
         [words EXCEPT ![1] = "ability"],
         [words EXCEPT ![2] = "ability"],
         SubSeq(words, 1, MnemonicLen - 1),
         words \o <<"ability">>,
         <<"ability">>,
         <<>>}

\* SHA-256 of mnemonic.join(' ') as 64 lowercase hex characters. The digest is
\* modelled without collisions: each word contributes a character of its own
\* and the rest is filled with a character no word contributes.
SeedDigest(mnemonic) ==
    [i \in 1..KeyLen |->
        IF i > Len(mnemonic) THEN "0"
        ELSE IF mnemonic[i] = "abandon" THEN "a" ELSE "b"]

\* lines 430-447: no check of the number of words
generateAddressFromMnemonic(mnemonic) ==
    LET privateKey == SeedDigest(mnemonic)
    IN  [address |-> GSC1 \o Substring(privateKey, 0, AddrKeyChars),
         privateKey |-> privateKey,
         publicKey |-> generatePublicKeyFromPrivate(privateKey)]

\* a direct call of generateAddressFromMnemonic; it touches no engine state
DeriveKey ==
    \E mnemonic \in MnemonicLists :
        /\ NoneInFlight
        /\ UNCHANGED <<blockchain, stored, imported, calls>>
        /\ last' = [op |-> "generateAddressFromMnemonic", result |-> "ok",
                    mnemonic |-> mnemonic,
                    derived |-> generateAddressFromMnemonic(mnemonic)]

\* GSCWalletManager.tsx handleImportFromMnemonic, lines 181-201, up to the
\* await inside importWallet; mnemonicWords is the text split at white space
handleImportFromMnemonic(c, importWalletName, mnemonicWords) ==
    IF Trim(importWalletName) = <<>> \/ mnemonicWords = <<>>
    THEN /\ FreeSlot(c)
         /\ UNCHANGED <<blockchain, stored, imported>>
         /\ ReturnsAtOnce("handleImportFromMnemonic", "input_required")
    ELSE IF Len(mnemonicWords) # MnemonicLen
    THEN /\ FreeSlot(c)
         /\ UNCHANGED <<blockchain, stored, imported>>
         /\ ReturnsAtOnce("handleImportFromMnemonic", "invalid_mnemonic")
    ELSE ImportWalletBegin(c, Trim(importWalletName),
                           generateAddressFromMnemonic(mnemonicWords).privateKey)

ImportFromMnemonic ==
    \E c \in CallIds, name \in Names, mnemonic \in MnemonicLists :
        NoneInFlight /\ handleImportFromMnemonic(c, name, mnemonic)

MnemonicResume == \E c \in CallIds : ImportWalletResume(c)

NextMnemonic == DeriveKey \/ ImportFromMnemonic \/ MnemonicResume

\* Restoring wallets from phrases: an engine constructed on an empty profile
InitMnemonic ==
    /\ calls = [c \in CallIds |-> Idle]
    /\ ConstructedFrom(Absent)

SpecMnemonic == InitMnemonic /\ [][NextMnemonic]_vars

----------------------------------------------------------------------------
(* Encryption of private keys, as functions of their arguments *)

CryptoKeys == {KeyA, KeyA2, KeyB, KeyShort, KeyZZ, <<>>}
CryptoPassphrases == {"pw", "pW", "p"}

\* a key is about to be encrypted under one passphrase and the result
\* decrypted under another, or the same
InitCrypto ==
    /\ \E privateKey \in CryptoKeys, passphrase, attempt \in CryptoPassphrases :
          calls = [c \in CallIds |->
                      IF c = 1
                      THEN [op |-> "encryptPrivateKey",
                            args |-> [privateKey |-> privateKey,
                                      passphrase |-> passphrase,
                                      attempt |-> attempt]]
                      ELSE Idle]
    /\ ConstructedFrom(Absent)

CryptoEncrypt ==
    \E c \in CallIds, salt \in Salts \cup {"s2"}, iv \in Ivs \cup {"iv2"} :
        /\ calls[c].op = "encryptPrivateKey"
        /\ UNCHANGED <<blockchain, stored, imported, last>>
        /\ calls' = [calls EXCEPT ![c] =
                [op |-> "decryptPrivateKey", args |-> calls[c].args,
                 encryptedKey |-> encryptPrivateKey(calls[c].args.privateKey,
                                                    calls[c].args.passphrase,
                                                    salt, iv)]]

CryptoDecrypt ==
    \E c \in CallIds :
        /\ calls[c].op = "decryptPrivateKey"
        /\ UNCHANGED <<blockchain, stored, imported>>
        /\ calls' = [calls EXCEPT ![c] = Idle]
        /\ last' = [op |-> "decryptPrivateKey", args |-> calls[c].args,
                    encryptedKey |-> calls[c].encryptedKey,
                    out |-> decryptPrivateKey(calls[c].encryptedKey,
                                              calls[c].args.attempt)]

NextCrypto == CryptoEncrypt \/ CryptoDecrypt

SpecCrypto == InitCrypto /\ [][NextCrypto]_vars

\* The sending path on its own: an engine constructed from the full snapshot,
\* whose wallets send to every kind of receiver address.
InitSend ==
    /\ calls = [c \in CallIds |-> Idle]
    /\ ConstructedFrom(Json(SnapFull))

TxSend ==
    \E c \in CallIds, w \in 1..Len(blockchain.wallets), receiver \in TxAddresses,
       amount \in TxAmounts, t \in Clock :
        NoneInFlight /\ SendBegin(c, w, receiver, amount, t)

TxResume == \E c \in CallIds : SendCommit(c) \/ SendReturn(c)

NextSend == TxSend \/ TxResume

SpecSend == InitSend /\ [][NextSend]_vars

\* createTransaction and the validation as functions of their arguments: the
\* engine has been constructed and one call, with arguments of every kind, is
\* about to run.
DirectCalls ==
    {CreateTransactionCall(sender, receiver, amount, fee, t) :
        sender \in TxAddresses, receiver \in TxAddresses, amount \in TxAmounts,
        fee \in TxFees, t \in Clock}
    \cup
    {ValidateCall(TransactionOf(sender, receiver, amount, fee, t, hashed)) :
        sender \in TxAddresses, receiver \in TxAddresses, amount \in TxAmounts,
        fee \in TxFees, t \in Clock, hashed \in BOOLEAN}

InitTx ==
    /\ \E call \in DirectCalls : calls = [c \in CallIds |-> IF c = 1 THEN call ELSE Idle]
    /\ ConstructedFrom(Json(SnapFull))

TxBuild == \E c \in CallIds : CreateTransaction(c)

TxValidate == \E c \in CallIds : ValidateTransaction(c)

NextTx == TxBuild \/ TxValidate

SpecTx == InitTx /\ [][NextTx]_vars

\* The continuation of an await on a service of the platform itself
\* (crypto.subtle): the promise settles and the event loop runs what follows.
EngineStep(c) ==
    CreateWalletResume(c) \/ ImportWalletResume(c) \/ SendCommit(c)

\* SpecAsync under the scheduling of the event loop. The awaits inside
\* broadcastTransaction are on fetch, which has no timeout and settles only
\* when the relay answers or the connection fails: nothing obliges SendReturn.
SpecLive ==
    InitAsync /\ [][NextAsync]_vars /\ \A c \in CallIds : WF_vars(EngineStep(c))

----------------------------------------------------------------------------
(* Vocabulary of the claims *)

IsSend(c)      == calls[c].op = "sendTransaction"
Hashing(c)     == IsSend(c) /\ calls[c].pc = "hash"
Committed(c)   == IsSend(c) /\ calls[c].pc = "broadcast"
CommitsNow(c)  == Hashing(c) /\ calls'[c].op = "sendTransaction"
                             /\ calls'[c].pc = "broadcast"
Cost(c)        == calls[c].tx.amount + Fee

WalletIds      == 1..Len(blockchain.wallets)
Addresses      == DOMAIN blockchain.balances
                    \cup {blockchain.wallets[i].address : i \in WalletIds}
                    \cup Receivers

Reported(op, result) == last.op = op /\ last.result = result

----------------------------------------------------------------------------
(* C1: of two sends from one wallet that overlap, each affordable alone but *)
(* not both together, only one succeeds: the later one to finish fails.     *)
(* Call c1 has committed and its debit is the ledger's latest word, call c2 *)
(* checked the same balance before that and is about to finish.             *)
C1_OverlappingSendsNotBothSucceed ==
    [][\A c1, c2 \in CallIds :
          (/\ c1 # c2
           /\ Committed(c1) /\ Hashing(c2)
           /\ calls[c1].tx.sender = calls[c2].tx.sender
           /\ calls[c1].balance = calls[c2].balance
           /\ Cost(c1) <= calls[c1].balance /\ Cost(c2) <= calls[c2].balance
           /\ Cost(c1) + Cost(c2) > calls[c1].balance
           /\ getWalletBalance(blockchain, calls[c1].tx.sender)
                = calls[c1].balance - Cost(c1))
          => ~CommitsNow(c2)]_vars

----------------------------------------------------------------------------
(* C2: every entry of the balances map is at least 0 in every reachable state *)
C2_BalancesNonNegative ==
    \A a \in DOMAIN blockchain.balances : blockchain.balances[a] >= 0

----------------------------------------------------------------------------
(* A send seen from outside: the step that starts it, the step that commits it *)

SenderOf(w)  == blockchain.wallets[w].address
BalanceOf(a) == getWalletBalance(blockchain, a)
BalanceAfter(a) == getWalletBalance(blockchain', a)

SendSuspends(c) == calls[c] = Idle /\ calls'[c].op = "sendTransaction"

\* what every start of a send does: it saves nothing, and it takes a slot or
\* returns at once (which last tells of, when it is kept)
MayBeSendStart ==
    /\ stored' = stored /\ imported' = imported
    /\ \/ \E c \in CallIds : SendSuspends(c)
       \/ calls' = calls /\ last'.op \in {"sendTransaction", NotObserved.op}

\* every way a send of concern can start, with a check that holds of each
EverySendStart(Concerns(_, _, _), Holds(_, _, _, _)) ==
    MayBeSendStart =>
        \A w \in WalletIds, receiver \in Receivers, amount \in Amounts :
            Concerns(w, receiver, amount) =>
                \A c \in CallIds, t \in Clock :
                    SendBegin(c, w, receiver, amount, t)
                        => Holds(c, w, receiver, amount)

AnySend(w, receiver, amount) == TRUE

SendRejected(reason) == last'.op = "sendTransaction" /\ last'.result = reason

----------------------------------------------------------------------------
(* C3: a send run alone with the fee of 0.1 is rejected for insufficient   *)
(* funds whenever the sender's balance is below amount + fee, and goes      *)
(* through when the balance is exactly amount + fee, leaving the sender at  *)
(* 0; the sender's balance is never negative afterwards.                    *)
C3_WellFormed(w, receiver, amount) ==
    NoneInFlight /\ StartsWith(receiver, GSC1) /\ amount > 0

C3_StartAtBoundary(c, w, receiver, amount) ==
    /\ BalanceOf(SenderOf(w)) < amount + Fee
          => SendRejected("insufficient") /\ blockchain' = blockchain
    /\ BalanceOf(SenderOf(w)) = amount + Fee
          => SendSuspends(c) /\ blockchain' = blockchain

C3_CommitAtBoundary(c) ==
    (Hashing(c) /\ SendCommit(c)) =>
        LET tx == calls[c].tx
        IN  /\ (/\ BalanceOf(tx.sender) = tx.amount + Fee
                /\ validateGSCTransaction(SignedTransaction(tx)))
                  => CommitsNow(c) /\ BalanceAfter(tx.sender) = 0
            /\ BalanceOf(tx.sender) < tx.amount + Fee => ~CommitsNow(c)
            /\ BalanceAfter(tx.sender) >= 0

----------------------------------------------------------------------------
(* C4: a successful send run alone lowers get_balance(sender) by exactly    *)
(* amount + fee, raises get_balance(receiver) by exactly amount, appends    *)
(* exactly one transaction at the tail of pending, and leaves the chain and *)
(* the balance of every other address as they were.                         *)
C4_StartFrame(c, w, receiver, amount) ==
    (NoneInFlight /\ SendSuspends(c)) => blockchain' = blockchain

C4_CommitFrame(c) ==
    (SendCommit(c) /\ CommitsNow(c)) =>
        LET tx == calls[c].tx
        IN  /\ BalanceAfter(tx.sender) = BalanceOf(tx.sender) - (tx.amount + Fee)
            /\ BalanceAfter(tx.receiver) = BalanceOf(tx.receiver) + tx.amount
            /\ blockchain'.pending_transactions
                 = Append(blockchain.pending_transactions, SignedTransaction(tx))
            /\ blockchain'.chain = blockchain.chain
            /\ \A a \in Addresses \ {tx.sender, tx.receiver} :
                  BalanceAfter(a) = BalanceOf(a)

C4_SendFrame ==
    [][/\ EverySendStart(AnySend, C4_StartFrame)
       /\ \A c \in CallIds : C4_CommitFrame(c)]_vars

----------------------------------------------------------------------------
(* C5: a send that fails, for whatever reason, leaves balances, pending and *)
(* the cached balance of every wallet exactly as they were, also when the   *)
(* sender's wallet shows a positive cached balance that the ledger lacks.   *)
LedgerView(bc) ==
    <<bc.balances, bc.pending_transactions,
      [i \in 1..Len(bc.wallets) |-> bc.wallets[i].balance]>>

C5_FailedStart(c, w, receiver, amount) ==
    ~SendSuspends(c) => LedgerView(blockchain') = LedgerView(blockchain)

C5_FailedCommit(c) ==
    (Hashing(c) /\ SendCommit(c) /\ ~CommitsNow(c))
        => LedgerView(blockchain') = LedgerView(blockchain)

C5_FailedSendChangesNothing ==
    [][/\ EverySendStart(AnySend, C5_FailedStart)
       /\ \A c \in CallIds : C5_FailedCommit(c)]_vars

----------------------------------------------------------------------------
(* C6: send looks at the wallet's cached balance only when the ledger has   *)
(* no entry for the sender; when there is an entry, even one of 0, the      *)
(* entry alone decides whether the send is affordable, and the cached       *)
(* balance is never written into balances.                                  *)
C6_HasEntry(w, receiver, amount) == Has(blockchain.balances, SenderOf(w))

C6_EntryDecides(c, w, receiver, amount) ==
    /\ blockchain'.balances = blockchain.balances
    /\ (StartsWith(receiver, GSC1) /\ amount > 0
          /\ blockchain.balances[SenderOf(w)] < amount + Fee)
         => ~SendSuspends(c)

C6_CachedBalanceOnlyWithoutEntry ==
    [][EverySendStart(C6_HasEntry, C6_EntryDecides)]_vars

----------------------------------------------------------------------------
(* C7: however calls of createWallet and importWallet overlap, the registry *)
(* never comes to hold two wallets of one name or of one address: of calls  *)
(* that ask for the same name or arrive at the same address, the one that   *)
(* finishes after the other has added its wallet adds none.                 *)
IsAddingCall(c) == calls[c].op \in {"createWallet", "importWallet"}

CallName(c) ==
    IF calls[c].op = "createWallet" THEN Trim(calls[c].name) ELSE calls[c].name

CallAddress(c) ==
    IF calls[c].op = "createWallet" THEN AddressOfKey(calls[c].privateKey)
    ELSE calls[c].address

AddsWallet(c) ==
    /\ CreateWalletResume(c) \/ CreateWalletFinish(c) \/ ImportWalletResume(c)
    /\ Len(blockchain'.wallets) > Len(blockchain.wallets)

\* a wallet that a create or import call has added: it carries a key
OwnedWallet(i) == blockchain.wallets[i].private_key # <<>>

C7_ConflictingCallsNotBothSucceed ==
    [][\A c \in CallIds :
          (/\ IsAddingCall(c)
           /\ \E i \in WalletIds :
                 /\ OwnedWallet(i)
                 /\ \/ blockchain.wallets[i].name = CallName(c)
                    \/ blockchain.wallets[i].address = CallAddress(c))
          => ~AddsWallet(c)]_vars

----------------------------------------------------------------------------
(* C8: in every reachable state no two wallets of the registry have the     *)
(* same name                                                                *)
C8_UniqueNames ==
    \A i, j \in WalletIds :
        blockchain.wallets[i].name = blockchain.wallets[j].name => i = j

----------------------------------------------------------------------------
(* C9: while calls run one at a time, no two wallets of the registry have   *)
(* the same address                                                         *)
C9_UniqueAddresses ==
    \A i, j \in WalletIds :
        blockchain.wallets[i].address = blockchain.wallets[j].address => i = j

\* importWallet has just refused a key whose address a wallet already has
C9_ImportRefusedForAddress ==
    /\ Reported("importWallet", "address_exists")
    /\ Len(blockchain.wallets) >= 2

----------------------------------------------------------------------------
(* C10: absorbing an external snapshot, at start-up or by a refresh, never  *)
(* discards a wallet known locally: every wallet of the registry (for a     *)
(* start-up, of the local snapshot) is afterwards still in the registry and *)
(* in the persisted snapshot, with its name, address and key.               *)
Kept(wallet, wallets) ==
    \E j \in 1..Len(wallets) :
        /\ wallets[j].name = wallet.name
        /\ wallets[j].address = wallet.address
        /\ wallets[j].private_key = wallet.private_key

AllKept(before) ==
    \A i \in 1..Len(before) :
        /\ Kept(before[i], blockchain'.wallets)
        /\ stored'.kind = "json" /\ Kept(before[i], stored'.value.wallets)

C10_AbsorbKeepsWallets ==
    [][\A item \in InitialImports :
          /\ (item.kind = "json" /\ RefreshBlockchainData(item))
                => AllKept(blockchain.wallets)
          /\ (item.kind = "json" /\ stored.kind = "json" /\ Restart(item, stored))
                => AllKept(stored.value.wallets)]_vars

\* ---- load: precedence of the snapshots (C11, C12) ----

LocalItems == {stored, Absent, Corrupt}

IsGenesisState(bc) == \E t \in Clock : bc = createGenesisBlock(t)

\* C11: a load uses the external one-shot snapshot whenever one is present and
\* clears its marker; with no external snapshot it restores the local snapshot
\* it finds; it synthesizes genesis only when it finds neither of the two.
C11_LoadPrecedence ==
    [][\A item \in InitialImports, local \in LocalItems :
          Restart(item, local) =>
             /\ item # Absent => imported' = Absent /\ last'.result = "imported"
             /\ (item = Absent /\ local.kind = "json") =>
                   /\ blockchain' = initializeBlockchainAfterImport(local.value)
                   /\ stored' = local
             /\ IsGenesisState(blockchain') => item = Absent /\ local = Absent]_vars

\* C12: a load that cannot parse the external item or the local item leaves
\* the stored local snapshot as it found it.
C12_FailedLoadKeepsLocalSnapshot ==
    [][\A item \in InitialImports, local \in LocalItems :
          (Restart(item, local) /\ last'.result = "error") => stored' = local]_vars

\* ---- persistence (C13) ----

\* C13: whenever no public operation is under way, the stored local snapshot
\* is the serialization of the in-memory state: nothing is left unflushed,
\* whether the last operation succeeded or failed.
C13_StoredEqualsMemory == NoneInFlight => stored = saveBlockchain(blockchain)

\* ---- broadcast (C14) ----

\* C14: when the broadcast of a committed send settles without delivery, the
\* ledger and the stored snapshot stay as the commit left them and the send
\* still reports success.
C14_BroadcastFailureKeepsSend ==
    [][\A c \in CallIds :
          (Committed(c) /\ SendReturn(c) /\ last'.broadcast # "delivered") =>
              /\ blockchain' = blockchain
              /\ stored' = stored
              /\ stored' = saveBlockchain(blockchain')
              /\ last'.result = "ok"]_vars

\* a send has returned success after a broadcast that delivered nothing, and
\* its transaction is still pending
C14_SucceededUndelivered ==
    /\ last.op = "sendTransaction" /\ last.result = "ok"
    /\ last.broadcast # "delivered"
    /\ Len(blockchain.pending_transactions) > 0

\* ---- broadcast and termination (C15) ----

\* C15: a send that has passed its checks and committed returns its result,
\* whether or not the relay ever answers.
C15_CommittedSendReturns ==
    \A c \in CallIds : Committed(c) ~> (calls[c] = Idle)

\* ---- validation of transactions (C16) ----

ToSelf(tx) == tx.sender = tx.receiver

\* the validation turns down every record whose sender is its receiver
SelfTransfersInvalid ==
    \A sender \in TxAddresses, amount \in TxAmounts, fee \in TxFees,
       t \in Clock, hashed \in BOOLEAN :
        ~validateGSCTransaction(
            TransactionOf(sender, sender, amount, fee, t, hashed))

\* C16: the validation rejects every transaction whose sender is its
\* receiver, whatever its amount and fee; a send to the sender's own address
\* fails and leaves the ledger, the pending pool included, as it was.
C16_SelfTransferRejected ==
    [][/\ SelfTransfersInvalid
       /\ \A c \in CallIds :
            (Hashing(c) /\ ToSelf(calls[c].tx) /\ SendCommit(c)) =>
                /\ blockchain' = blockchain
                /\ stored' = stored
                /\ last'.result = "validation_failed"]_vars

\* a send to the sender's own address got through the earlier checks and was
\* turned down by the validation
C16_SelfSendTurnedDown ==
    /\ Reported("sendTransaction", "validation_failed")
    /\ last.sender = last.receiver
    /\ validateGSCAddress(last.sender)
    /\ blockchain.pending_transactions = SnapFull.mempool[1]

\* ---- the address check (C17) ----

IsSystemAddress(address) == address \in {GENESIS, COINBASE}

IsWellFormedAddress(address) ==
    /\ StartsWith(address, GSC1)
    /\ Len(address) >= MinAddrLen /\ Len(address) <= MaxAddrLen
    /\ \A i \in (Len(GSC1) + 1)..Len(address) : address[i] \in HexChars

\* C17: a transaction the validation accepts has a sender and a receiver that
\* are each GENESIS, COINBASE, or GSC1 followed by hexadecimal characters to a
\* length of 35 or 36.
C17_AcceptedAddressesWellFormed ==
    (last.op = "validateGSCTransaction" /\ last.result = "accepted") =>
        \A address \in {last.tx.sender, last.tx.receiver} :
            IsSystemAddress(address) \/ IsWellFormedAddress(address)

\* ---- the minimum fee (C18) ----

\* C18: createTransaction called with a sender other than GENESIS and
\* COINBASE and a fee under 0.1, zero and negative fees included, fails for
\* the fee and yields no transaction.
C18_LowFeeFails ==
    (/\ last.op = "createTransaction"
     /\ ~IsSystemAddress(last.args.sender)
     /\ last.args.fee < Fee)
        => last.result = "fee_too_low" /\ last.tx = None

\* ---- what send places in the pending pool (C19) ----

IsSoundTransaction(tx) ==
    /\ tx.amount > 0
    /\ tx.fee >= Fee
    /\ ~ToSelf(tx)
    /\ \A address \in {tx.sender, tx.receiver} :
          IsSystemAddress(address) \/ IsWellFormedAddress(address)

\* C19: every transaction a send appends to the pending pool has a positive
\* amount, a fee of at least 0.1, a receiver other than its sender, and a
\* sender and a receiver that are well-formed addresses.
C19_PendingFromSendIsSound ==
    [][\A c \in CallIds :
          (Hashing(c) /\ SendCommit(c) /\ CommitsNow(c)) =>
              LET pool == blockchain'.pending_transactions
              IN  /\ Len(pool) = Len(blockchain.pending_transactions) + 1
                  /\ IsSoundTransaction(pool[Len(pool)])]_vars

\* ---- tx_id and signature of a built transaction (C20) ----

SignatureLen == 16

\* C20: a transaction that createTransaction returns has a tx_id of 64
\* hexadecimal characters and a signature of 16, the tx_id being the digest
\* of sender, receiver, amount, fee and timestamp and the signature the
\* digest of tx_id, sender and timestamp.
C20_BuiltIdAndSignature ==
    (last.op = "createTransaction" /\ last.result = "ok") =>
        LET tx == last.tx[1]
        IN  /\ tx.tx_id.len = TxIdLen
            /\ tx.tx_id.digest =
                  <<tx.sender, tx.receiver, tx.amount, tx.fee, tx.timestamp>>
            /\ tx.signature.len = SignatureLen
            /\ tx.signature.digest = <<tx.tx_id, tx.sender, tx.timestamp>>

\* ---- wallet names (C21) ----

MinNameLen == 3

NameChars ==
    {"a", "b", "c", "d", "e", "f", "g", "h", "i", "j", "k", "l", "m",
     "n", "o", "p", "q", "r", "s", "t", "u", "v", "w", "x", "y", "z",
     "A", "B", "C", "D", "E", "F", "G", "H", "I", "J", "K", "L", "M",
     "N", "O", "P", "Q", "R", "S", "T", "U", "V", "W", "X", "Y", "Z",
     "0", "1", "2", "3", "4", "5", "6", "7", "8", "9",
     "_", " ", "-"}

IsValidName(name) ==
    Len(name) >= MinNameLen /\ \A i \in 1..Len(name) : name[i] \in NameChars

\* C21: a wallet that createWallet or importWallet adds to the registry has a
\* name of at least 3 characters, each a letter, a digit, an underscore, a
\* space or a hyphen.
C21_AddedNamesValid ==
    [][Len(blockchain'.wallets) > Len(blockchain.wallets) =>
          \A c \in CallIds :
              (IsAddingCall(c) /\ AddsWallet(c)) =>
                  IsValidName(blockchain'.wallets[Len(blockchain'.wallets)].name)]_vars

\* ---- importWallet and the format of the key (C22) ----

\* what every start of an import does: it returns at once or takes a slot
MayBeImportStart ==
    \/ calls' = calls /\ last'.op = "importWallet"
    \/ \E c \in CallIds : calls[c] = Idle /\ calls'[c].op = "importWallet"

ImportRefusedUnchanged ==
    /\ blockchain' = blockchain
    /\ stored' = stored
    /\ calls' = calls
    /\ last'.op = "importWallet"
    /\ last'.result \in {"name_required", "key_required", "invalid_key_format"}

\* every import whose key is of concern is refused and changes nothing
EveryImportRefused(Concerns(_)) ==
    MayBeImportStart =>
        \A privateKey \in ImportKeys :
            Concerns(privateKey) =>
                \A c \in CallIds, name \in Names :
                    ImportWalletBegin(c, name, privateKey)
                        => ImportRefusedUnchanged

NotKeyFormat(privateKey) == ~IsPrivateKeyFormat(privateKey)

NotKeyFormatTrimmed(privateKey) == ~IsPrivateKeyFormat(Trim(privateKey))

\* C22 as stated: importWallet with a private key that is not exactly 64
\* hexadecimal characters fails with a validation error and leaves the
\* registry, the balances and the stored snapshot unchanged.
C22_BadKeyRefused == [][EveryImportRefused(NotKeyFormat)]_vars

\* C22, amended: importWallet with a private key that, once the white space
\* around it is removed, is not exactly 64 hexadecimal characters fails with
\* a validation error and leaves the registry, the balances and the stored
\* snapshot unchanged.
C22_BadTrimmedKeyRefused == [][EveryImportRefused(NotKeyFormatTrimmed)]_vars

\* an import has just been refused for the format of its key, with wallets
\* in the registry
C22_ImportRefusedForKey ==
    /\ Reported("importWallet", "invalid_key_format")
    /\ Len(blockchain.wallets) >= 1
    /\ stored = saveBlockchain(blockchain)

\* ---- the address of a wallet (C23) ----

LowerHexChars == {"0", "1", "2", "3", "4", "5", "6", "7", "8", "9",
                  "a", "b", "c", "d", "e", "f"}

\* the key, in clear, of the wallet that call c is adding
CallKey(c) ==
    IF calls[c].op = "createWallet" THEN calls[c].privateKey
    ELSE calls[c].cleanPrivateKey

IsDerivedAddress(address, key) ==
    /\ address = GSC1 \o SubSeq(key, 1, AddrKeyChars)
    /\ Len(address) >= MinAddrLen /\ Len(address) <= MaxAddrLen
    /\ \A i \in (Len(GSC1) + 1)..Len(address) : address[i] \in LowerHexChars
    /\ validateGSCAddress(address)

\* C23: the wallet that createWallet or importWallet adds has the address
\* GSC1 followed by the first 32 characters of its private key; the address
\* has 35 or 36 characters, those after GSC1 being digits and the letters a
\* to f, and the address check accepts it.
C23_AddressDerivedFromKey ==
    [][Len(blockchain'.wallets) > Len(blockchain.wallets) =>
          \A c \in CallIds :
              (IsAddingCall(c) /\ AddsWallet(c)) =>
                  IsDerivedAddress(
                      blockchain'.wallets[Len(blockchain'.wallets)].address,
                      CallKey(c))]_vars

\* ---- reading a balance (C24) ----

QueryAddresses == Addresses \cup TxAddresses

WalletsOf(address) ==
    {i \in WalletIds : blockchain.wallets[i].address = address}

\* C24: getWalletBalance returns the entry of the balances map for the
\* address when there is one, be it 0; with no entry, the cached balance of
\* the registry wallet of that address when there is one; and 0 otherwise.
C24_BalanceLookup ==
    \A address \in QueryAddresses :
        LET balance == getWalletBalance(blockchain, address)
        IN  IF Has(blockchain.balances, address)
            THEN balance = blockchain.balances[address]
            ELSE IF WalletsOf(address) # {}
            THEN \E i \in WalletsOf(address) :
                    balance = blockchain.wallets[i].balance
            ELSE balance = 0

\* the three cases at once: an address with an entry that differs from its
\* wallet's cached balance, a wallet with a cached balance and no entry, and
\* an address with neither
C24_AllLookupCases ==
    /\ \E address \in QueryAddresses, i \in WalletIds :
          /\ Has(blockchain.balances, address)
          /\ blockchain.wallets[i].address = address
          /\ blockchain.wallets[i].balance # blockchain.balances[address]
    /\ \E i \in WalletIds :
          /\ ~Has(blockchain.balances, blockchain.wallets[i].address)
          /\ blockchain.wallets[i].balance > 0
    /\ \E address \in QueryAddresses :
          ~Has(blockchain.balances, address) /\ WalletsOf(address) = {}

\* ---- the refresh-style merge: wallets (C25) ----

JsonImports == {item \in InitialImports : item.kind = "json"}

\* what every refresh that absorbs a snapshot does
MayBeRefresh == calls' = calls /\ imported' = Absent /\ last'.op = "refresh"

\* the balances map of a snapshot, empty when it has none
SnapBalances(data) == OrElse(data.balances, EmptyMap)

Floored(balance) == Max(0, balance)

AsGiven(balance) == balance

\* the wallets of before are all there, in place, each as it was but for its
\* cached balance, which is what the snapshot gives for its address
RefreshKeeps(old, new, snap, Cached(_)) ==
    /\ Len(new) >= Len(old)
    /\ \A i \in 1..Len(old) :
          new[i] = [old[i] EXCEPT !.balance =
                        IF Has(snap, old[i].address)
                        THEN Cached(snap[old[i].address])
                        ELSE old[i].balance]

AddedFor(old, new, address) ==
    {j \in (Len(old) + 1)..Len(new) : new[j].address = address}

\* the wallets added are observer wallets, one for each address of the
\* snapshot that is to get one and was not in the registry, and no others
RefreshAdds(old, new, snap, GetsWallet(_)) ==
    /\ \A address \in DOMAIN snap :
          IF GetsWallet(address) /\ FindByAddress(old, address) = 0
          THEN Cardinality(AddedFor(old, new, address)) = 1
          ELSE AddedFor(old, new, address) = {}
    /\ \A j \in (Len(old) + 1)..Len(new) :
          /\ new[j].address \in DOMAIN snap
          /\ new[j].private_key = <<>> /\ new[j].public_key = <<>>
          /\ ~new[j].encrypted

AnyAddress(address) == TRUE

EveryRefresh(Cached(_), GetsWallet(_)) ==
    MayBeRefresh =>
        \A item \in JsonImports :
            RefreshBlockchainData(item) =>
                /\ RefreshKeeps(blockchain.wallets, blockchain'.wallets,
                                SnapBalances(item.value), Cached)
                /\ RefreshAdds(blockchain.wallets, blockchain'.wallets,
                               SnapBalances(item.value), GetsWallet)

\* C25 as stated: a refresh keeps every wallet of the registry with its name
\* and key, sets its cached balance to the snapshot's value for its address
\* when the snapshot has one, and adds exactly one observer wallet for each
\* address of the snapshot's balances that had no wallet.
C25_RefreshWallets == [][EveryRefresh(AsGiven, AnyAddress)]_vars

\* C25, amended: a refresh keeps every wallet of the registry with its name
\* and key, sets its cached balance to the snapshot's value for its address,
\* floored at 0, when the snapshot has one, and adds exactly one observer
\* wallet for each address of the snapshot's balances that starts with GSC1,
\* is neither GENESIS nor COINBASE and had no wallet; it adds no other wallet.
C25_RefreshWalletsFloored == [][EveryRefresh(Floored, IsObserverAddress)]_vars

\* a refresh has just changed the cached balance of a wallet that carries a
\* key and has added an observer wallet next to it
C25_RefreshedBesideOwned ==
    /\ Reported("refresh", "ok")
    /\ \E i, j \in WalletIds :
          /\ i < j
          /\ OwnedWallet(i) /\ blockchain.wallets[i].balance > 0
          /\ ~OwnedWallet(j)

\* ---- the refresh-style merge: chain, pool and parameters (C26) ----

\* a field takes the snapshot's value when the snapshot has the field, and
\* keeps its value when it has not
TakesOrKeeps(opt, before, after) ==
    after = IF opt = None THEN before ELSE opt[1]

\* the pending pool of a snapshot: its mempool, or else its pending_transactions
SnapPending(data) ==
    IF data.mempool # None THEN data.mempool ELSE data.pending_transactions

\* C26: in a refresh each of chain, pending pool, total_supply, difficulty and
\* mining_reward takes the snapshot's value whenever the snapshot has the
\* field, an empty list and the value 0 included, and keeps its local value
\* only when the snapshot has not.
C26_RefreshFields ==
    [][MayBeRefresh =>
          \A item \in JsonImports :
              RefreshBlockchainData(item) =>
                  LET data == item.value
                      old  == blockchain
                      new  == blockchain'
                  IN  /\ TakesOrKeeps(data.chain, old.chain, new.chain)
                      /\ TakesOrKeeps(SnapPending(data), old.pending_transactions,
                                      new.pending_transactions)
                      /\ TakesOrKeeps(data.total_supply, old.total_supply,
                                      new.total_supply)
                      /\ TakesOrKeeps(data.difficulty, old.difficulty,
                                      new.difficulty)
                      /\ TakesOrKeeps(data.mining_reward, old.mining_reward,
                                      new.mining_reward)]_vars

\* ---- the first import of an external snapshot (C27) ----

\* a balances entry that is to get an observer wallet
IsWalletEntry(address) ==
    /\ StartsWith(address, GSC1)
    /\ address # GENESIS
    /\ address # COINBASE

\* a wallet without key material, not encrypted, holding this balance
IsObserverOf(wallet, balance) ==
    /\ wallet.private_key = <<>>
    /\ wallet.public_key = <<>>
    /\ wallet.encrypted = FALSE
    /\ wallet.balance = Floored(balance)

\* C27: after the first import of an external snapshot the registry holds
\* exactly one observer wallet (no key material, not encrypted) for each
\* balances entry whose address starts with GSC1 and is neither GENESIS nor
\* COINBASE, its cached balance being the entry floored at 0, and no wallet
\* for any other balances entry.
C27_ImportedObservers ==
    Reported("load", "imported") =>
        /\ \A address \in DOMAIN blockchain.balances :
              IF IsWalletEntry(address)
              THEN /\ Cardinality(WalletsOf(address)) = 1
                   /\ \A i \in WalletsOf(address) :
                         IsObserverOf(blockchain.wallets[i],
                                      blockchain.balances[address])
              ELSE WalletsOf(address) = {}
        /\ \A i \in WalletIds :
              blockchain.wallets[i].address \in DOMAIN blockchain.balances

\* a snapshot has been imported that has a negative entry, which got a wallet
\* holding 0, and an entry without the prefix, which got none
C27_ImportedWithOddEntries ==
    /\ Reported("load", "imported")
    /\ \E address \in DOMAIN blockchain.balances :
          /\ IsWalletEntry(address)
          /\ blockchain.balances[address] < 0
          /\ WalletsOf(address) # {}
    /\ \E address \in DOMAIN blockchain.balances :
          /\ ~IsWalletEntry(address)
          /\ WalletsOf(address) = {}

\* ---- export and absorption by a fresh engine (C28, C29) ----

\* the engines that a fresh profile may construct from the exported text
AbsorbedExports ==
    LET text == exportBlockchain(blockchain)
    IN  {loadBlockchain(text, Absent, t, order).bc :
            t \in Clock, order \in OrdersOf(text)}

\* C28: in every reachable state, the text that export gives, absorbed by a
\* fresh empty engine, yields the same balances map (same addresses, same
\* values) and a chain of equal length.
C28_ExportKeepsBalancesAndChain ==
    \A bc \in AbsorbedExports :
        /\ bc.balances = blockchain.balances
        /\ Len(bc.chain) = Len(blockchain.chain)

\* an engine with a longer chain, a balances entry and a send pending
C28_ExportOfBusyEngine ==
    /\ Len(blockchain.chain) > 1
    /\ blockchain.pending_transactions # <<>>
    /\ \E address \in DOMAIN blockchain.balances :
          blockchain.balances[address] > 0
    /\ \E i \in WalletIds : blockchain.wallets[i].private_key # <<>>

\* the fields of a wallet that an export is to carry over
WalletIdentity(wallet) ==
    [name |-> wallet.name, address |-> wallet.address,
     private_key |-> wallet.private_key, public_key |-> wallet.public_key,
     encrypted |-> wallet.encrypted]

\* C29: export is round-trip complete: absorbing the exported text into a
\* fresh engine reproduces, besides chain and balances, the same wallets
\* (names, addresses, key material, encryption flags), the same pending pool,
\* and the same difficulty, mining_reward and total_supply.
C29_ExportRoundTrip ==
    \A bc \in AbsorbedExports :
        /\ bc.chain = blockchain.chain
        /\ bc.balances = blockchain.balances
        /\ Len(bc.wallets) = Len(blockchain.wallets)
        /\ {WalletIdentity(bc.wallets[i]) : i \in 1..Len(bc.wallets)}
              = {WalletIdentity(blockchain.wallets[i]) : i \in WalletIds}
        /\ bc.pending_transactions = blockchain.pending_transactions
        /\ bc.difficulty = blockchain.difficulty
        /\ bc.mining_reward = blockchain.mining_reward
        /\ bc.total_supply = blockchain.total_supply

\* ---- the start on an empty profile (C30) ----

\* C30: when the constructor finds neither an external nor a local snapshot,
\* load leaves a chain of exactly one genesis block (index 0, no
\* transactions, miner GENESIS), an empty pending pool, an empty balances map
\* and an empty registry, and that state is the one persisted.
C30_GenesisOnEmptyProfile ==
    Reported("load", "genesis") =>
        /\ Len(blockchain.chain) = 1
        /\ blockchain.chain[1].index = 0
        /\ blockchain.chain[1].transactions = <<>>
        /\ blockchain.chain[1].miner = "GENESIS"
        /\ blockchain.pending_transactions = <<>>
        /\ DOMAIN blockchain.balances = {}
        /\ blockchain.wallets = <<>>
        /\ stored = Json(blockchain)

\* the constructor has started on an empty profile
C30_StartedOnEmptyProfile ==
    /\ Reported("load", "genesis")
    /\ blockchain.chain # <<>>
    /\ stored.kind = "json"

\* ---- the message for the relay (C31) ----

\* a send has returned after its broadcast posted a message
MessagePosted ==
    /\ last.op = "sendTransaction"
    /\ "payload" \in DOMAIN last
    /\ last.payload # None

\* the fields of a pending transaction that the message is to repeat
MessageFields(tx) ==
    [tx_id |-> tx.tx_id, sender |-> tx.sender, receiver |-> tx.receiver,
     amount |-> tx.amount, fee |-> tx.fee, timestamp |-> tx.timestamp,
     signature |-> tx.signature]

\* the message repeats the transaction last appended to the pending pool, the
\* append and the balance change are in the local snapshot, the send succeeded
MessageIsOfCommittedSend ==
    LET pending == blockchain.pending_transactions
    IN  /\ last.result = "ok"
        /\ pending # <<>>
        /\ last.payload[1].transaction = MessageFields(pending[Len(pending)])
        /\ stored = Json(blockchain)

\* C31: the message handed to the relay for a committed send has type
\* "TRANSACTION" and a transaction record whose tx_id, sender, receiver,
\* amount, fee, timestamp and signature are those of the transaction appended
\* to the pending pool; it is handed over only after the balance change and
\* the append have been persisted, and never for a send that failed.
C31_RelayMessage ==
    MessagePosted =>
        /\ last.payload[1].type = "TRANSACTION"
        /\ MessageIsOfCommittedSend

\* ---- wallets from mnemonic phrases (C32) ----

\* a direct call of the derivation has returned
Derived == last.op = "generateAddressFromMnemonic"

\* the call did not give a key
DerivationRefused ==
    /\ last'.result = "invalid_mnemonic"
    /\ "derived" \notin DOMAIN last'

\* C32: the derivation rejects every word list whose length is not 12 as an
\* invalid mnemonic, and an import from such a list adds no wallet; for a list
\* of 12 words the key and the address depend on the words in their order
\* only, so that importing the same 12 words a second time under another name
\* is rejected as a duplicate address.
C32_MnemonicLength ==
    [][/\ (last'.op = "generateAddressFromMnemonic" /\ DeriveKey) =>
              IF Len(last'.mnemonic) # MnemonicLen
              THEN DerivationRefused
              ELSE last'.derived = generateAddressFromMnemonic(last'.mnemonic)
       /\ \A mnemonic \in MnemonicLists :
             LET address == generateAddressFromMnemonic(mnemonic).address
             IN  \A c \in CallIds, name \in Names :
                    handleImportFromMnemonic(c, name, mnemonic) =>
                        /\ Len(mnemonic) # MnemonicLen =>
                              /\ calls' = calls
                              /\ blockchain' = blockchain
                              /\ last'.result = "invalid_mnemonic"
                                    \/ last'.result = "input_required"
                        /\ (/\ Len(mnemonic) = MnemonicLen
                            /\ WalletsOf(address) # {}
                            /\ Trim(name) # <<>>
                            /\ FindByName(blockchain.wallets, Trim(name)) = 0) =>
                              /\ calls' = calls
                              /\ blockchain' = blockchain
                              /\ last' = Report("importWallet", "address_exists")
      ]_vars

\* ---- encryption round trip (C33) ----

IsLoadStep ==
    /\ last'.op = "load"
    /\ \A c \in CallIds : calls'[c] = Idle

\* the listing of before is the front of the listing of after, wallet for
\* wallet; what is new comes behind it
ListingExtended(before, after) ==
    /\ Len(after) >= Len(before)
    /\ \A i \in 1..Len(before) :
          WalletIdentity(after[i]) = WalletIdentity(before[i])

\* C34: listing the registry gives the wallets in the order they came in:
\* create and import put the new wallet behind all that were there, and a
\* refresh keeps the wallets that were there in their order, with the new
\* observer wallets behind them.
C34_InsertionOrder ==
    [][(blockchain'.wallets # blockchain.wallets /\ ~IsLoadStep) =>
          /\ ListingExtended(getWallets(blockchain), getWallets(blockchain'))
          /\ last'.op \in {"createWallet", "importWallet", "importWalletWithAddress"}
                => Len(blockchain'.wallets) <= Len(blockchain.wallets) + 1]_vars

\* an import has put a wallet with a key behind an observer wallet
C34_ImportedBehindObserver ==
    /\ Reported("importWallet", "ok")
    /\ Len(getWallets(blockchain)) = 2
    /\ getWallets(blockchain)[1].private_key = <<>>
    /\ getWallets(blockchain)[2].private_key # <<>>

\* ---- a credit that arrives during a send (C35) ----

\* call c2 has committed a send to the sender of call c1, which started before
\* that and has not committed yet: the ledger shows the balance c1 started
\* from, and the credit on top
CreditedInFlight(c1, c2) ==
    /\ c1 # c2
    /\ Hashing(c1) /\ Committed(c2)
    /\ calls[c2].tx.receiver = calls[c1].tx.sender
    /\ calls[c2].tx.sender # calls[c1].tx.sender
    /\ BalanceOf(calls[c1].tx.sender) = calls[c1].balance + calls[c2].tx.amount

\* C35: a credit that an address receives while its own send is in flight is
\* not lost: when send A->B overlaps with send C->A and both succeed, A ends
\* with its initial balance less amount and fee of its own send plus the amount
\* received from C, however the two calls interleave.
C35_CreditInFlightKept ==
    [][\A c1, c2 \in CallIds :
          (CreditedInFlight(c1, c2) /\ CommitsNow(c1)) =>
              BalanceAfter(calls[c1].tx.sender)
                = calls[c1].balance - Cost(c1) + calls[c2].tx.amount]_vars

\* ---- the order of the checks of a send (C36) ----

\* the send returned at once with this error
RefusedAtOnce(reason) == calls' = calls /\ SendRejected(reason)

\* what a send that starts reports, by the first of its preconditions
\* that fails
ReportsFirstFailure(c, w, receiver, amount) ==
    /\ ~StartsWith(receiver, GSC1) => RefusedAtOnce("invalid_address")
    /\ (StartsWith(receiver, GSC1) /\ amount <= 0) => RefusedAtOnce("invalid_amount")
    /\ RefusedAtOnce("insufficient") =>
          /\ StartsWith(receiver, GSC1)
          /\ amount > 0
          /\ BalanceOf(SenderOf(w)) < amount + Fee

\* C36: when a send violates several preconditions at once, the error
\* reported follows the fixed order of the checks: a receiver without the
\* GSC1 prefix is reported as an invalid address even if the amount is <= 0
\* or the funds are short, an amount <= 0 as an invalid amount even if the
\* funds are short, and insufficient funds only when receiver prefix and
\* amount are acceptable.
C36_CheckOrder ==
    [][EverySendStart(AnySend, ReportsFirstFailure)]_vars

\* a send was reported as one to an invalid address from a registry in which
\* no wallet could have paid for any amount
C36_InvalidAddressAndShort ==
    /\ Reported("sendTransaction", "invalid_address")
    /\ WalletIds # {}
    /\ \A w \in WalletIds : BalanceOf(SenderOf(w)) < 1 + Fee

\* ---- the total of all balances (C37) ----

\* the addresses an engine knows of: those of its balances map and those of
\* its wallets
KnownAddresses(bc) ==
    DOMAIN bc.balances \cup {bc.wallets[i].address : i \in 1..Len(bc.wallets)}

\* the sum of getWalletBalance over a set of addresses
RECURSIVE TotalOver(_, _)
TotalOver(bc, addresses) ==
    IF addresses = {} THEN 0
    ELSE LET address == CHOOSE a \in addresses : TRUE
         IN  getWalletBalance(bc, address) + TotalOver(bc, addresses \ {address})

\* the totals before and after a step, over every address known at either end
TotalBefore ==
    TotalOver(blockchain, KnownAddresses(blockchain) \cup KnownAddresses(blockchain'))
TotalAfter ==
    TotalOver(blockchain', KnownAddresses(blockchain) \cup KnownAddresses(blockchain'))

\* the step belongs to a send: it starts one, commits one or ends one
IsSendStep ==
    \/ \E c \in CallIds : SendSuspends(c)
    \/ \E c \in CallIds : IsSend(c) /\ calls'[c] # calls[c]
    \/ /\ calls' = calls /\ stored' = stored /\ imported' = imported
       /\ blockchain'.wallets = blockchain.wallets
       /\ blockchain'.pending_transactions = blockchain.pending_transactions

\* C37: sending never creates value: under every sequence and interleaving of
\* sends the sum of the balances of all addresses never goes up in a step of
\* a send, and every send that succeeds lowers it by exactly its fee.
C37_SendsConserveValue ==
    [][IsSendStep =>
          /\ TotalAfter <= TotalBefore
          /\ \A c \in CallIds : CommitsNow(c) => TotalAfter = TotalBefore - Fee]_vars

\* ---- cached balances after a send (C38) ----

\* the registry of after the send, each wallet of sender or receiver holding
\* what the balances map has for it, every other wallet what it held
RECURSIVE SettledWallets(_, _, _)
SettledWallets(wallets, balances, parties) ==
    IF wallets = <<>> THEN <<>>
    ELSE <<IF Head(wallets).address \in parties
           THEN [Head(wallets) EXCEPT !.balance = balances[Head(wallets).address]]
           ELSE Head(wallets)>>
         \o SettledWallets(Tail(wallets), balances, parties)

\* C38: after every successful send run alone, the registry wallets of the
\* sender and of the receiver, where there are any, have a cached balance
\* equal to the entry of the balances map for their address, so that the
\* circulating supply of the stats, the sum of the cached balances, reflects
\* the send.
C38_CachedFollowsLedger ==
    [][\A c \in CallIds :
          CommitsNow(c) =>
              LET parties == {calls[c].tx.sender, calls[c].tx.receiver}
                  settled == SettledWallets(blockchain.wallets,
                                            blockchain'.balances, parties)
              IN  /\ parties \subseteq DOMAIN blockchain'.balances
                  /\ blockchain'.wallets = settled
                  /\ circulatingSupply(blockchain'.wallets)
                        = circulatingSupply(settled)]_vars

\* a send between two wallets of the registry has succeeded, and the cached
\* balances of both are those of the balances map
C38_BothPartiesSettled ==
    /\ Reported("sendTransaction", "ok")
    /\ blockchain.pending_transactions # <<>>
    /\ LET tx == blockchain.pending_transactions[Len(blockchain.pending_transactions)]
       IN  /\ WalletsOf(tx.sender) # {} /\ WalletsOf(tx.receiver) # {}
           /\ \A i \in WalletsOf(tx.sender) \cup WalletsOf(tx.receiver) :
                 blockchain.wallets[i].balance
                    = blockchain.balances[blockchain.wallets[i].address]

\* ---- sends and the sender's key material (C39) ----

\* key material a wallet may hold: none (an observer wallet), a key in the
\* clear, a key encrypted under a passphrase
KeyMaterials ==
    {[private_key |-> <<>>, public_key |-> <<>>, encrypted |-> FALSE],
     [private_key |-> KeyB, public_key |-> generatePublicKeyFromPrivate(KeyB),
      encrypted |-> FALSE],
     [private_key |-> encryptPrivateKey(KeyA, "pw", "s1", "iv1"),
      public_key |-> generatePublicKeyFromPrivate(KeyA), encrypted |-> TRUE]}

\* the engine with the key material of wallet w exchanged, all else the same
WithKeyMaterial(bc, w, keys) ==
    [bc EXCEPT !.wallets[w].private_key = keys.private_key,
               !.wallets[w].public_key  = keys.public_key,
               !.wallets[w].encrypted   = keys.encrypted]

\* what of an outcome is compared: the report, the balances, the cached
\* balances and the pending pool with every field of its transactions
OutcomeView(outcome) ==
    [result   |-> outcome.result,
     balances |-> outcome.bc.balances,
     cached   |-> [i \in 1..Len(outcome.bc.wallets) |-> outcome.bc.wallets[i].balance],
     pending  |-> outcome.bc.pending_transactions]

\* C39: the outcome of a send (success or failure, the balances it leaves, and
\* sender, receiver, amount, fee, tx_id and signature of the pending
\* transaction) does not depend on the sender wallet's key material or
\* encryption flag: two runs from states that differ in the sender wallet's
\* private_key, public_key and encrypted only, an observer wallet with an
\* empty key included, end in the same result.
C39_SendIgnoresKeyMaterial ==
    \A w \in WalletIds, keys \in KeyMaterials :
        \A receiver \in Receivers, amount \in Amounts, t \in Clock :
            OutcomeView(SendOutcome(WithKeyMaterial(blockchain, w, keys),
                                    w, receiver, amount, t))
              = OutcomeView(SendOutcome(blockchain, w, receiver, amount, t))

\* a wallet that holds a private key has sent
C39_KeyHolderHasSent ==
    /\ Reported("sendTransaction", "ok")
    /\ blockchain.pending_transactions # <<>>
    /\ \E i \in WalletsOf(
             blockchain.pending_transactions[Len(blockchain.pending_transactions)].sender) :
          blockchain.wallets[i].private_key # <<>>

\* ---- the ids of pending transactions (C40) ----

\* the places of the pending pool that hold a transaction made by a send:
\* these carry a signature, which a snapshot's own transactions lack
SentPending ==
    {i \in 1..Len(blockchain.pending_transactions) :
        blockchain.pending_transactions[i].signature # None}

\* C40: no two transactions that sends have appended to the pending pool have
\* the same tx_id, also when two sends with the same sender, receiver and
\* amount are issued at the same reading of the clock, so that a lookup by
\* tx_id finds one pending transaction only.
C40_PendingIdsDistinct ==
    \A i, j \in SentPending :
        i # j => blockchain.pending_transactions[i].tx_id
                    # blockchain.pending_transactions[j].tx_id

====
